---- MODULE Spec2Model ----
(***************************************************************************)
(* Model of the Fisher relayer's batching engine                           *)
(* (src/fisher-rust/src/relayer.rs and the pure functions it calls).       *)
(*                                                                         *)
(* The relayer keeps an intent queue behind a tokio RwLock and a Metrics   *)
(* value behind a second RwLock.  submit_intent is called by external      *)
(* callers; process_batch runs in the periodic driver task spawned by      *)
(* start() and in the tasks submit_intent spawns when the queue reaches    *)
(* max_batch_size.  Every await point of the code is a step boundary of    *)
(* the model; code between two await points is one step.                   *)
(***************************************************************************)
EXTENDS Integers, Sequences, FiniteSets, TLC

\* ------------------------------------------------------------------ bounds

\* number of submit_intent calls made in one behaviour
MaxIntents == 5
\* number of submitted intents whose amount does not fit in 128 bits
MaxWide == 1
\* seconds the clock advances in one behaviour
MaxClock == 1
\* largest batch size the size functions are called with
MaxSize == 10000
\* longest intent list build_batch and phi_sort are called with directly
MaxBatchLen == 2
\* the serialized batches handed to encode_batch fill up to this many blobs
MaxBlobCount == 7
\* compound_growth is called with up to this many periods
MaxPeriods == 3
\* tree_combine is called with up to this many items
MaxItems == 6
\* process_in_chunks is called with slices of up to this length
MaxSliceLen == 9
\* calls of record_operations and advance_era on one EraState
MaxEraCalls == 4

\* ------------------------------------------------------- program constants

TraditionalGasPerOp == 100000
OptimizedGasPerOp == 14000
\* PHI = 1.618033988749 in millionths, rounded
PhiMillionths == 1618034
BLOB_SIZE == 131072
MAX_BLOBS_PER_TX == 6
\* vec![0u8; 48] of generate_commitment and generate_proof
CommitmentLen == 48

\* ------------------------------------------------------------ input sets

\* external callers of submit_intent; one caller's calls follow one another,
\* so intent ids (handed out per accepted call) are in call order
Callers == {"c1"}
\* tasks spawned by submit_intent on high water (slots are reused)
SpawnSlots == <<"s1", "s2">>
Spawned == {SpawnSlots[i] : i \in 1..Len(SpawnSlots)}
Driver == "driver"
Flushers == {Driver} \cup Spawned

\* signature bytes: empty, or the bytes the repository's test uses first
Signatures == {<< >>, <<222, 173>>}
\* U256 amounts, by whether Uint::to::<u128>() succeeds on them
Amounts == {"fits_u128", "exceeds_u128"}
\* (min_batch_size, max_batch_size) pairs accepted by validate_config
Configs == {<<1, 2>>, <<2, 5>>}

NoIntent == [id |-> 0, signature |-> << >>, amount |-> "fits_u128"]
\* a drain's Batch before build_batch ran, its BatchResult before there is one
NoBatch ==
    [id |-> 0, intents |-> << >>, chunk_size |-> 0, estimated_gas |-> 0,
     estimated_savings |-> 0]
NoResult == [batch_id |-> 0, gas_saved |-> 0, successes |-> << >>]
\* Result<String> values of submit_intent, and the value before any call
NoReturn == [ok |-> FALSE, id |-> 0, err |-> "none"]
OkId(id) == [ok |-> TRUE, id |-> id, err |-> "none"]
ErrOf(e) == [ok |-> FALSE, id |-> 0, err |-> e]
Free == "free"
\* argument and result of a direct call of a pure function
NoArg == [kind |-> "none", n |-> 0, intents |-> << >>]
NoRet == [fn |-> "none", panicked |-> FALSE, value |-> 0]
Returned(fn, v) == [fn |-> fn, panicked |-> FALSE, value |-> v]
Panicked(fn) == [fn |-> fn, panicked |-> TRUE, value |-> 0]

VARIABLES
    min_batch_size,   \* config.min_batch_size
    max_batch_size,   \* config.max_batch_size
    intent_queue,     \* contents of intent_queue
    queue_lock,       \* holder of intent_queue's write lock, or Free
    metrics,          \* contents of metrics
    metrics_lock,     \* holder of metrics' write lock, or Free
    pc,               \* position of each task that runs process_batch
    cur,              \* per flusher: index in drains of the drain it works on
    last_result,      \* per flusher: what its last process_batch returned
    sub_pc,           \* position of each caller inside submit_intent
    sub_intent,       \* per caller: the argument of its current or last call
    sub_ret,          \* per caller: what its last call returned
    next_id,          \* number of intents accepted for queueing so far
    wide_used,        \* number of calls made with an amount above u128
    drains,           \* history: every drain of the queue and what became of it
    now,              \* SystemTime::now() in whole seconds since the epoch
    main_pc,          \* position of the binary's main()
    arg,              \* argument of a direct call of one of the pure functions
    ret,              \* what that call returned
    era_state,        \* an EraState
    era_log           \* history: the calls made on the EraState

config == <<min_batch_size, max_batch_size>>
queue_state == <<intent_queue, queue_lock>>
metrics_state == <<metrics, metrics_lock>>
flush_state == <<pc, cur, last_result, drains>>
caller_state == <<sub_pc, sub_intent, sub_ret, next_id, wide_used>>

env_state == <<now, main_pc>>
call_state == <<arg, ret, era_state, era_log>>

vars == <<config, queue_state, metrics_state, flush_state, caller_state,
          env_state, call_state>>

\* ------------------------------------------------------------- rationals
\* f64 values are modelled as exact rationals <<numerator, denominator>>.

RECURSIVE Gcd(_, _)
Gcd(a, b) == IF b = 0 THEN a ELSE Gcd(b, a % b)

Abs(x) == IF x < 0 THEN -x ELSE x

Norm(n, d) ==
    LET g == Gcd(Abs(n), Abs(d))
        s == IF d < 0 THEN -1 ELSE 1
    IN  IF n = 0 THEN <<0, 1>> ELSE <<s * (n \div g), s * (d \div g)>>

RatAdd(p, q) == Norm(p[1] * q[2] + q[1] * p[2], p[2] * q[2])
RatMul(p, q) == Norm(p[1] * q[1], p[2] * q[2])
RatDiv(p, q) == Norm(p[1] * q[2], p[2] * q[1])
Rat(n) == <<n, 1>>

\* ------------------------------------------------------- pure functions

\* variant: a signature check that accepts every intent
verify_signature_any(intent) == TRUE

\* Intent::verify_signature
verify_signature(intent) == intent.signature # << >>

\* variant: a square root rounded up
SqrtCeil(n) == CHOOSE r \in 0..n : r * r >= n /\ (r = 0 \/ (r - 1) * (r - 1) < n)

\* (n as f64).sqrt() as usize
SqrtFloor(n) == CHOOSE r \in 0..n : r * r <= n /\ (r + 1) * (r + 1) > n

\* (n as f64).log2().ceil() as usize
Log2Ceil(n) == CHOOSE k \in 0..n : 2^k >= n /\ (k = 0 \/ 2^(k - 1) < n)

williams_chunk_size(n) == IF n <= 1 THEN n ELSE SqrtFloor(n) * Log2Ceil(n)

\* variant: the traditional gas returned where the savings belong
estimate_batch_gas_total(n) == <<n * OptimizedGasPerOp, n * TraditionalGasPerOp>>

\* estimate_batch_gas: (optimized_gas, savings)
estimate_batch_gas(n) ==
    <<n * OptimizedGasPerOp, n * TraditionalGasPerOp - n * OptimizedGasPerOp>>

\* variant: a drain that copies the intents out and leaves them queued
DrainedQueueKept(q) == q

\* the queue drain(..) leaves behind
DrainedQueue(q) == << >>

\* variant: a push at the head of the queue
PushedFront(q, intent) == <<intent>> \o q

\* the queue after push(intent)
Pushed(q, intent) == Append(q, intent)

\* the high-water test of submit_intent, on the queue after the push
HighWater(q) == Len(q) >= max_batch_size

\* variant: a size test that is off by one
TooSmallOffByOne(q) == Len(q) < min_batch_size - 1

\* the queue-too-small test of process_batch
TooSmall(q) == Len(q) < min_batch_size

\* variant: process_batch without the early drop(queue), the guard living on
LockKeptAfterDrain(t) == t

\* holder of the queue lock after process_batch's drop(queue)
LockAfterDrain(t) == Free

\* build_batch panics when an amount does not convert to u128
BuildPanics(intents) ==
    \E i \in 1..Len(intents) : intents[i].amount = "exceeds_u128"

\* the Batch build_batch returns for the drained intents: the id is the
\* clock reading in seconds, the intents are kept in the order they came in
build_batch(intents) ==
    [id |-> now,
     intents |-> intents,
     chunk_size |-> williams_chunk_size(Len(intents)),
     estimated_gas |-> estimate_batch_gas(Len(intents))[1],
     estimated_savings |-> estimate_batch_gas(Len(intents))[2]]

\* Batch::savings_percent: (estimated_savings / total) * 100.0
savings_percent(batch) ==
    IF batch.estimated_gas = 0
    THEN Rat(0)
    ELSE RatMul(Norm(batch.estimated_savings,
                     batch.estimated_gas + batch.estimated_savings),
                Rat(100))

\* variant: a BatchResult whose success flags were never filled in
BatchResultNoFlags(batch) ==
    [batch_id |-> batch.id,
     gas_saved |-> batch.estimated_savings,
     successes |-> << >>]

\* the BatchResult submit_batch_to_ethereum (and submit_batch_wasm) returns
\* once the receipt is in: vec![true; batch.intents.len()]
BatchResultOf(batch) ==
    [batch_id |-> batch.id,
     gas_saved |-> batch.estimated_savings,
     successes |-> [i \in 1..Len(batch.intents) |-> TRUE]]

\* calculate_savings subtracts williams_chunk_size(n) from n in usize
SavingsUnderflows(n) == n # 0 /\ williams_chunk_size(n) > n

\* calculate_savings in a build without overflow checks.  The value is
\* q + w * 2^64: where the usize subtraction wraps, 2^64 is added to the
\* difference before the division, which w accounts for.
calculate_savings(n) ==
    IF n = 0
    THEN [q |-> Rat(0), w |-> Rat(0)]
    ELSE [q |-> Norm((n - williams_chunk_size(n)) * 100, n),
          w |-> IF SavingsUnderflows(n) THEN Norm(100, n) ELSE Rat(0)]

\* estimate_phi_savings
estimate_phi_savings(n) == Norm((n * 140000 - 5000) * 100, n * 140000)

\* estimate_total_savings: (williams_savings, phi_savings, combined_savings)
estimate_total_savings(n) ==
    <<calculate_savings(n),
      estimate_phi_savings(n),
      Norm((n * 240000 - (n * 14000 + 5000)) * 100, n * 240000)>>

\* Metrics::default
DefaultMetrics ==
    [total_batches |-> 0, total_intents |-> 0, total_gas_saved |-> 0,
     avg_batch_size |-> Rat(0), avg_savings_percent |-> Rat(0),
     avg_williams_savings |-> [q |-> Rat(0), w |-> Rat(0)],
     avg_phi_savings |-> Rat(0)]

\* update_metrics, lines 357-359: the counters
UpdateCounters(m, n, gas_saved) ==
    [m EXCEPT !.total_batches = @ + 1,
              !.total_intents = @ + n,
              !.total_gas_saved = @ + gas_saved]

\* (avg * (n - 1.0) + x) / n
FoldMean(avg, batches, x) ==
    RatDiv(RatAdd(RatMul(avg, Rat(batches - 1)), x), Rat(batches))

\* update_metrics, lines 362-370: the running means, on the bumped counters
UpdateAverages(m, n) ==
    LET b == m.total_batches
        s == estimate_total_savings(n)
    IN  [m EXCEPT
            !.avg_batch_size = FoldMean(@, b, Rat(n)),
            !.avg_savings_percent = FoldMean(@, b, s[3]),
            !.avg_williams_savings =
                [q |-> FoldMean(@.q, b, s[1].q), w |-> FoldMean(@.w, b, s[1].w)],
            !.avg_phi_savings = FoldMean(@, b, s[2])]

\* get_metrics: a clone taken under the read lock
get_metrics == metrics

\* ------------------------------------------------ phi_freeman: phi_sort

\* Intents handed to build_batch and phi_sort directly.  Ids stand for id
\* strings and are ordered as those are; amounts are 0, 1 and a value above
\* u128::MAX; timestamps are clock readings; max_gas_price is None.
IntentIds == {1, 2}
Timestamps == {0, 1}
SortAmounts == {"zero", "one", "exceeds_u128"}
SortIntents ==
    [id : IntentIds, priority : BOOLEAN, timestamp : Timestamps,
     amount : SortAmounts]
IntentLists == UNION {[1..k -> SortIntents] : k \in 0..MaxBatchLen}

\* calculate_phi_score, in millionths, on ages 0 and 1 and amounts 0 and 1:
\* age.powf(1/PHI) is the age, ln(1) is 0 and ln(0) is -inf, which makes the
\* score -inf whatever the other factors are; -inf is written -1, below
\* every finite score of these inputs.
calculate_phi_score(intent, t) ==
    LET age_factor == IF t > intent.timestamp THEN t - intent.timestamp ELSE 0
        priority_factor == IF intent.priority THEN PhiMillionths ELSE 1000000
    IN  IF intent.amount = "zero" THEN -1 ELSE priority_factor * age_factor

\* intent.amount.to::<u128>() panics inside the comparator, which a slice
\* shorter than two never calls
PhiSortPanics(intents) ==
    /\ Len(intents) >= 2
    /\ \E i \in 1..Len(intents) : intents[i].amount = "exceeds_u128"

\* sort_by is stable: x goes in front of the first element whose score is
\* strictly lower, behind every element of equal score
RECURSIVE InsertByScore(_, _, _)
InsertByScore(sorted, x, t) ==
    IF sorted = << >> THEN <<x>>
    ELSE IF calculate_phi_score(Head(sorted), t) < calculate_phi_score(x, t)
         THEN <<x>> \o sorted
         ELSE <<Head(sorted)>> \o InsertByScore(Tail(sorted), x, t)

\* phi_sort with the clock reading t: descending score, input order on ties
RECURSIVE phi_sort(_, _)
phi_sort(intents, t) ==
    IF intents = << >> THEN << >>
    ELSE InsertByScore(phi_sort(SubSeq(intents, 1, Len(intents) - 1), t),
                       intents[Len(intents)], t)

\* ------------------------------------------------------ blob: BlobEncoder

\* Batches handed to encode_batch, each with the length in bytes of its
\* bincode serialization, a length at or next to a multiple of BLOB_SIZE.
BlobIntents ==
    [id : IntentIds, priority : {FALSE}, timestamp : {0}, amount : {"one"}]
BlobBatches ==
    [id : {0, 1},
     intents : UNION {[1..k -> BlobIntents] : k \in 0..MaxBatchLen},
     len : {k * BLOB_SIZE + d : k \in 1..MaxBlobCount, d \in {-1, 0, 1}}]

\* Byte strings are lists of runs: bytes start..end (end excluded) of the
\* serialization of a batch, or a count of zero bytes.
DataRun(batch, start, end) ==
    [kind |-> "data", of |-> batch, start |-> start, end |-> end, len |-> end - start]
ZeroRun(n) == [kind |-> "zero", of |-> NoBatch, start |-> 0, end |-> n, len |-> n]

RECURSIVE RunsLen(_)
RunsLen(runs) == IF runs = << >> THEN 0 ELSE Head(runs).len + RunsLen(Tail(runs))

\* bincode::serialize(batch)
Serialized(batch) == <<DataRun(batch, 0, batch.len)>>

\* &batch_bytes[start..end]
Slice(bytes, start, end) == <<DataRun(bytes[1].of, start, end)>>

\* blob_data.resize(size, 0) on a chunk of at most size bytes
Resized(data, size) ==
    IF RunsLen(data) < size THEN data \o <<ZeroRun(size - RunsLen(data))>> ELSE data

\* create_blob_tx; the hashes are left out, their lengths are kept
create_blob_tx(data) ==
    [blob_data |-> Resized(data, BLOB_SIZE),
     commitment_len |-> CommitmentLen,
     proof_len |-> CommitmentLen]

\* variant: a limit that is off by one
TooManyBlobsOffByOne(num_blobs) == num_blobs >= MAX_BLOBS_PER_TX

TooManyBlobs(num_blobs) == num_blobs > MAX_BLOBS_PER_TX

Min(a, b) == IF a < b THEN a ELSE b

\* encode_batch: Err(BatchTooLarge) or the blobs
encode_batch(batch) ==
    LET batch_bytes == Serialized(batch)
        num_blobs == (RunsLen(batch_bytes) + BLOB_SIZE - 1) \div BLOB_SIZE
    IN  IF TooManyBlobs(num_blobs)
        THEN [ok |-> FALSE, err |-> "BatchTooLarge", blobs |-> << >>]
        ELSE [ok |-> TRUE, err |-> "none",
              blobs |-> [i \in 1..num_blobs |->
                  create_blob_tx(Slice(batch_bytes, (i - 1) * BLOB_SIZE,
                                       Min(i * BLOB_SIZE, RunsLen(batch_bytes))))]]

\* combined_data.extend_from_slice, with neighbouring runs of the same
\* serialization that continue one another joined
RECURSIVE Combined(_)
Combined(runs) ==
    IF Len(runs) < 2 THEN runs
    ELSE LET a == runs[1]
             b == runs[2]
         IN  IF a.kind = "data" /\ b.kind = "data" /\ a.of = b.of /\ a.end = b.start
             THEN Combined(<<DataRun(a.of, a.start, b.end)>> \o SubSeq(runs, 3, Len(runs)))
             ELSE <<a>> \o Combined(Tail(runs))

RECURSIVE BlobData(_)
BlobData(blobs) ==
    IF blobs = << >> THEN << >> ELSE Head(blobs).blob_data \o BlobData(Tail(blobs))

\* variant: bytes after the serialization are an error
DeserializedWhole(bytes) ==
    LET runs == Combined(bytes)
    IN  IF /\ Len(runs) = 1
           /\ runs[1].kind = "data"
           /\ runs[1].start = 0
           /\ runs[1].end = runs[1].of.len
        THEN [ok |-> TRUE, err |-> "none", batch |-> runs[1].of]
        ELSE [ok |-> FALSE, err |-> "Other", batch |-> NoBatch]

\* bincode::deserialize reads one Batch from the front of the bytes and
\* ignores what follows it; bytes that do not start with a whole
\* serialization do not give the batch back
Deserialized(bytes) ==
    LET runs == Combined(bytes)
    IN  IF /\ runs # << >>
           /\ runs[1].kind = "data"
           /\ runs[1].start = 0
           /\ runs[1].end = runs[1].of.len
        THEN [ok |-> TRUE, err |-> "none", batch |-> runs[1].of]
        ELSE [ok |-> FALSE, err |-> "Other", batch |-> NoBatch]

\* decode_batch
decode_batch(blobs) == Deserialized(BlobData(blobs))

\* ------------------------------------ williams: chunks and tree_combine

\* process_in_chunks divides by chunk_size for the capacity of results
ChunksPanic(n) == williams_chunk_size(n) = 0

\* the for loop of process_in_chunks from chunk_start on; process_fn fails
\* on its call number fail_at and returns its chunk otherwise
RECURSIVE ChunkLoop(_, _, _, _, _)
ChunkLoop(intents, chunk_size, chunk_start, fail_at, calls) ==
    IF chunk_start >= Len(intents)
    THEN [ok |-> TRUE, err |-> 0, results |-> calls, calls |-> calls]
    ELSE LET chunk_end == Min(chunk_start + chunk_size, Len(intents))
             chunk == SubSeq(intents, chunk_start + 1, chunk_end)
         IN  IF Len(calls) + 1 = fail_at
             THEN [ok |-> FALSE, err |-> fail_at, results |-> << >>,
                   calls |-> Append(calls, chunk)]
             ELSE ChunkLoop(intents, chunk_size, chunk_start + chunk_size, fail_at,
                            Append(calls, chunk))

\* process_in_chunks where it does not panic
process_in_chunks(intents, fail_at) ==
    ChunkLoop(intents, williams_chunk_size(Len(intents)), 0, fail_at, << >>)

\* Vec::swap_remove(i), i counted from 0: the vector it leaves
SwapRemoved(v, i) ==
    LET moved == [v EXCEPT ![i + 1] = v[Len(v)]]
    IN  SubSeq(moved, 1, Len(v) - 1)

\* combine_fn: the items of both arguments, so that every use shows
combine_fn(a, b) == a \o b

\* one level of tree_combine: the for loop over (0..n).step_by(2), n being
\* the length of current_level when the loop starts
RECURSIVE LevelLoop(_, _, _, _)
LevelLoop(current_level, next_level, i, n) ==
    IF i >= n
    THEN [panicked |-> FALSE, level |-> next_level]
    ELSE IF i + 1 < Len(current_level)
    THEN LET first == current_level[i + 1]
             after == SwapRemoved(current_level, i)
             second == after[i + 1]
         IN  LevelLoop(SwapRemoved(after, i),
                       Append(next_level, combine_fn(first, second)), i + 2, n)
    ELSE IF i < Len(current_level)
    THEN LevelLoop(SwapRemoved(current_level, i),
                   Append(next_level, current_level[i + 1]), i + 2, n)
    ELSE [panicked |-> TRUE, level |-> << >>]

\* the while loop of tree_combine
RECURSIVE Levels(_)
Levels(current_level) ==
    IF Len(current_level) > 1
    THEN LET r == LevelLoop(current_level, << >>, 0, Len(current_level))
         IN  IF r.panicked THEN r ELSE Levels(r.level)
    ELSE [panicked |-> FALSE, level |-> current_level]

\* swap_remove panics on an index that is not below the length
TreeCombinePanics(items) == items # << >> /\ Levels(items).panicked

\* tree_combine where it does not panic: None or Some(item)
tree_combine(items) ==
    IF items = << >>
    THEN [some |-> FALSE, item |-> << >>]
    ELSE [some |-> TRUE, item |-> Levels(items).level[1]]

\* the items 1..n, each a list of its own
Items(n) == [i \in 1..n |-> <<i>>]

\* ------------------------------------------- phi_optimization: fee growth

\* u128 and u64 values are lists of base-1000 digits, lowest first, with no
\* leading zero digit; << >> is zero.
RECURSIVE BigTrim(_)
BigTrim(a) ==
    IF a = << >> THEN << >>
    ELSE IF a[Len(a)] = 0 THEN BigTrim(SubSeq(a, 1, Len(a) - 1)) ELSE a

Rest(a) == IF a = << >> THEN << >> ELSE Tail(a)
Low(a) == IF a = << >> THEN 0 ELSE Head(a)

RECURSIVE BigAddC(_, _, _)
BigAddC(a, b, c) ==
    IF a = << >> /\ b = << >>
    THEN IF c = 0 THEN << >> ELSE <<c>>
    ELSE LET x == Low(a) + Low(b) + c
         IN  <<x % 1000>> \o BigAddC(Rest(a), Rest(b), x \div 1000)

BigAdd(a, b) == BigAddC(a, b, 0)

\* a - b for a >= b
RECURSIVE BigSubB(_, _, _)
BigSubB(a, b, c) ==
    IF a = << >> THEN << >>
    ELSE LET x == Low(a) - Low(b) - c
         IN  IF x < 0
             THEN <<x + 1000>> \o BigSubB(Rest(a), Rest(b), 1)
             ELSE <<x>> \o BigSubB(Rest(a), Rest(b), 0)

BigSub(a, b) == BigTrim(BigSubB(a, b, 0))

RECURSIVE BigMulSmallC(_, _, _)
BigMulSmallC(a, m, c) ==
    IF a = << >>
    THEN IF c = 0 THEN << >> ELSE <<c>>
    ELSE LET x == Head(a) * m + c
         IN  <<x % 1000>> \o BigMulSmallC(Tail(a), m, x \div 1000)

RECURSIVE BigMul(_, _)
BigMul(a, b) ==
    IF a = << >> \/ b = << >> THEN << >>
    ELSE BigTrim(BigAdd(BigMulSmallC(a, Head(b), 0), <<0>> \o BigMul(a, Tail(b))))

RECURSIVE BigLess(_, _)
BigLess(a, b) ==
    IF Len(a) # Len(b) THEN Len(a) < Len(b)
    ELSE IF a = << >> THEN FALSE
    ELSE IF a[Len(a)] # b[Len(b)] THEN a[Len(a)] < b[Len(b)]
    ELSE BigLess(BigTrim(SubSeq(a, 1, Len(a) - 1)), BigTrim(SubSeq(b, 1, Len(b) - 1)))

BigLeq(a, b) == ~BigLess(b, a)

\* SCALE = 10^18 = 1000^6
SCALE == <<0, 0, 0, 0, 0, 0, 1>>

\* x / SCALE: the six lowest digits dropped
DivScale(a) == IF Len(a) <= 6 THEN << >> ELSE SubSeq(a, 7, Len(a))

\* u128::MAX = 340282366920938463463374607431768211455
U128Max == <<455, 211, 768, 431, 607, 374, 463, 463, 938, 920, 366, 282, 340>>

\* u64::MAX = 18446744073709551615
U64Max == <<615, 551, 709, 73, 744, 446, 18>>

\* x mod 2^w for x below 2^(w+1), max = 2^w - 1
Wrapped(x, max) == IF BigLess(max, x) THEN BigSub(BigSub(x, max), <<1>>) ELSE x

\* a.saturating_mul(b) in u128
saturating_mul(a, b) ==
    LET p == BigMul(a, b) IN IF BigLess(U128Max, p) THEN U128Max ELSE p

\* SCALE + rate overflows u128
GrowthOverflows(rate, periods) ==
    periods > 0 /\ BigLess(U128Max, BigAdd(SCALE, rate))

RECURSIVE GrowthLoop(_, _, _)
GrowthLoop(result, rate, periods) ==
    IF periods = 0 THEN result
    ELSE GrowthLoop(DivScale(saturating_mul(result, Wrapped(BigAdd(SCALE, rate), U128Max))),
                    rate, periods - 1)

\* compound_growth, where SCALE + rate wraps if it overflows and is not trapped
compound_growth(initial, rate, periods) ==
    IF periods = 0 THEN initial ELSE GrowthLoop(initial, rate, periods)

\* 10^38, above u128::MAX / SCALE
Big38 == <<0, 0, 0, 0, 0, 0, 0, 0, 0, 0, 0, 0, 100>>

\* 100 * SCALE and SCALE / 10 are the values of test_compound_growth
GrowthInitials == {<< >>, <<1>>, <<0, 0, 0, 0, 0, 0, 100>>, Big38, U128Max}
GrowthRates == {<< >>, <<0, 0, 0, 0, 0, 100>>, SCALE, U128Max}

\* a u64 or u128 of at most 999
Big(n) == IF n = 0 THEN << >> ELSE <<n>>

\* EraState::new at the time now
EraState_new(base_fee, fee_growth_rate, era_duration) ==
    [era |-> Big(0),
     base_fee |-> base_fee,
     fee_growth_rate |-> fee_growth_rate,
     era_duration |-> era_duration,
     era_start |-> Big(now),
     era_operations |-> Big(0),
     total_operations |-> Big(0)]

\* where no EraState is in use
NoEra ==
    [era |-> << >>, base_fee |-> << >>, fee_growth_rate |-> << >>,
     era_duration |-> << >>, era_start |-> << >>, era_operations |-> << >>,
     total_operations |-> << >>]

\* a u64 addition overflows
Overflows64(a, b) == BigLess(U64Max, BigAdd(a, b))

\* a u64 addition that wraps
Add64(a, b) == Wrapped(BigAdd(a, b), U64Max)

\* record_operations in a build without overflow checks
record_operations(e, count) ==
    [e EXCEPT !.era_operations = Add64(@, count),
              !.total_operations = Add64(@, count)]

\* record_operations up to the addition that overflows and panics
record_operations_trapped(e, count) ==
    IF Overflows64(e.era_operations, count) THEN e
    ELSE [e EXCEPT !.era_operations = Add64(@, count)]

\* advance_era in a build without overflow checks
advance_era(e) ==
    [e EXCEPT !.era = Add64(@, Big(1)),
              !.era_start = Add64(@, e.era_duration),
              !.era_operations = Big(0)]

\* advance_era up to the addition that overflows and panics
advance_era_trapped(e) ==
    IF Overflows64(e.era, Big(1)) THEN e
    ELSE [e EXCEPT !.era = Add64(@, Big(1))]

\* the counts record_operations is called with
EraCounts == {Big(1), Big(2), U64Max}
\* the era durations: an hour, and the longest there is
EraDurations == {<<600, 3>>, U64Max}

\* ------------------------------------------------------------------ Init

\* FisherRelayer::new
InitRelayer ==
    /\ \E c \in Configs : min_batch_size = c[1] /\ max_batch_size = c[2]
    /\ intent_queue = << >>
    /\ queue_lock = Free
    /\ metrics = DefaultMetrics
    /\ metrics_lock = Free
    /\ pc = [t \in Flushers |-> IF t = Driver THEN "unstarted" ELSE "unspawned"]
    /\ cur = [t \in Flushers |-> 0]
    /\ last_result = [t \in Flushers |-> "none"]
    /\ sub_pc = [c \in Callers |-> "idle"]
    /\ sub_intent = [c \in Callers |-> NoIntent]
    /\ sub_ret = [c \in Callers |-> NoReturn]
    /\ next_id = 0
    /\ wide_used = 0
    /\ drains = << >>

\* the relayer as main() has it before start(); seconds are counted from here
Init ==
    /\ InitRelayer
    /\ now = 0
    /\ main_pc = "running"
    /\ arg = NoArg
    /\ ret = NoRet
    /\ era_state = NoEra
    /\ era_log = << >>

\* ------------------------------------------------------- submit_intent

InCall == {c \in Callers : sub_pc[c] # "idle"}
FreeSlots == {s \in Spawned : pc[s] = "unspawned"}
FirstFreeSlot ==
    LET i == CHOOSE k \in 1..Len(SpawnSlots) :
                 /\ pc[SpawnSlots[k]] = "unspawned"
                 /\ \A j \in 1..(k - 1) : pc[SpawnSlots[j]] # "unspawned"
    IN  SpawnSlots[i]

\* submit_intent up to the first await: the signature check
SubmitCall(c) ==
    /\ sub_pc[c] = "idle"
    /\ main_pc # "exited"
    /\ next_id < MaxIntents
    /\ Cardinality(FreeSlots) > Cardinality(InCall)
    /\ \E sig \in Signatures, amt \in Amounts :
        LET intent == [id |-> next_id + 1, signature |-> sig, amount |-> amt] IN
        /\ sub_intent' = [sub_intent EXCEPT ![c] = intent]
        /\ IF verify_signature(intent)
           THEN /\ amt = "exceeds_u128" => wide_used < MaxWide
                /\ wide_used' = IF amt = "exceeds_u128" THEN wide_used + 1 ELSE wide_used
                /\ next_id' = next_id + 1
                /\ sub_pc' = [sub_pc EXCEPT ![c] = "lock"]
                /\ sub_ret' = [sub_ret EXCEPT ![c] = NoReturn]
           ELSE /\ sub_ret' = [sub_ret EXCEPT ![c] = ErrOf("InvalidSignature")]
                /\ UNCHANGED <<sub_pc, next_id, wide_used>>
    /\ UNCHANGED <<config, env_state, call_state, queue_state, metrics_state, flush_state>>

\* intent_queue.write().await resolves
SubmitLock(c) ==
    /\ sub_pc[c] = "lock"
    /\ queue_lock = Free
    /\ queue_lock' = c
    /\ sub_pc' = [sub_pc EXCEPT ![c] = "locked"]
    /\ UNCHANGED <<config, env_state, call_state, intent_queue, metrics_state, flush_state, sub_intent,
                   sub_ret, next_id, wide_used>>

\* push, the high-water test, the spawn and the return
SubmitPush(c) ==
    /\ sub_pc[c] = "locked"
    /\ queue_lock = c
    /\ intent_queue' = Pushed(intent_queue, sub_intent[c])
    /\ queue_lock' = Free
    /\ IF HighWater(intent_queue')
       THEN /\ FreeSlots # {}
            /\ pc' = [pc EXCEPT ![FirstFreeSlot] = "pb_lock"]
            /\ last_result' = [last_result EXCEPT ![FirstFreeSlot] = "none"]
       ELSE UNCHANGED <<pc, last_result>>
    /\ sub_pc' = [sub_pc EXCEPT ![c] = "idle"]
    /\ sub_ret' = [sub_ret EXCEPT ![c] = OkId(sub_intent[c].id)]
    /\ UNCHANGED <<config, env_state, call_state, metrics_state, cur, drains, sub_intent, next_id,
                   wide_used>>

\* ------------------------------------------------------- process_batch

\* the task's position after process_batch returns
AfterReturn(t) == IF t = Driver THEN "tick" ELSE "unspawned"
\* the task's position after a panic unwinds it
AfterPanic(t) == IF t = Driver THEN "dead" ELSE "unspawned"

SetStatus(t, s) == [drains EXCEPT ![cur[t]].status = s]

\* variant: a flusher that submits the batch again after an error
AfterSettleErrRetry(t) == "pb_submit"

\* the task's position after the settlement error: the ? operator returns it
AfterSettleErr(t) == AfterReturn(t)

\* start(): spawns the periodic driver
Start ==
    /\ pc[Driver] = "unstarted"
    /\ pc' = [pc EXCEPT ![Driver] = "tick"]
    /\ UNCHANGED <<config, env_state, call_state, queue_state, metrics_state, cur, last_result, drains,
                   caller_state>>

\* interval.tick().await resolves
Tick ==
    /\ pc[Driver] = "tick"
    /\ pc' = [pc EXCEPT ![Driver] = "pb_lock"]
    /\ last_result' = [last_result EXCEPT ![Driver] = "none"]
    /\ UNCHANGED <<config, env_state, call_state, queue_state, metrics_state, cur, drains, caller_state>>

\* intent_queue.write().await resolves
FlushLock(t) ==
    /\ pc[t] = "pb_lock"
    /\ queue_lock = Free
    /\ queue_lock' = t
    /\ pc' = [pc EXCEPT ![t] = "pb_locked"]
    /\ UNCHANGED <<config, env_state, call_state, intent_queue, metrics_state, cur, last_result, drains,
                   caller_state>>

\* the size test fails: Err(BatchProcessing), the guard is dropped on return
FlushTooSmall(t) ==
    /\ pc[t] = "pb_locked"
    /\ queue_lock = t
    /\ TooSmall(intent_queue)
    /\ queue_lock' = Free
    /\ pc' = [pc EXCEPT ![t] = AfterReturn(t)]
    /\ last_result' = [last_result EXCEPT ![t] = "BatchProcessing"]
    /\ UNCHANGED <<config, env_state, call_state, intent_queue, metrics_state, cur, drains, caller_state>>

\* the size test passes: drain(..) and drop(queue)
FlushDrain(t) ==
    /\ pc[t] = "pb_locked"
    /\ queue_lock = t
    /\ ~TooSmall(intent_queue)
    /\ drains' = Append(drains, [intents |-> intent_queue, status |-> "drained",
                                 batch |-> NoBatch, result |-> NoResult])
    /\ cur' = [cur EXCEPT ![t] = Len(drains) + 1]
    /\ intent_queue' = DrainedQueue(intent_queue)
    /\ queue_lock' = LockAfterDrain(t)
    /\ pc' = [pc EXCEPT ![t] = "pb_build"]
    /\ UNCHANGED <<config, env_state, call_state, metrics_state, last_result, caller_state>>

\* build_batch panics: the task unwinds
FlushBuildPanic(t) ==
    /\ pc[t] = "pb_build"
    /\ BuildPanics(drains[cur[t]].intents)
    /\ drains' = SetStatus(t, "build_panic")
    /\ pc' = [pc EXCEPT ![t] = AfterPanic(t)]
    /\ last_result' = [last_result EXCEPT ![t] = "panic"]
    /\ UNCHANGED <<config, env_state, call_state, queue_state, metrics_state, cur, caller_state>>

\* build_batch, then the call into submit_batch_to_chain up to its await
FlushBuild(t) ==
    /\ pc[t] = "pb_build"
    /\ ~BuildPanics(drains[cur[t]].intents)
    /\ LET batch == build_batch(drains[cur[t]].intents)
       IN  drains' = [drains EXCEPT ![cur[t]] =
               [intents |-> batch.intents, status |-> "submitting",
                batch |-> batch, result |-> NoResult]]
    /\ pc' = [pc EXCEPT ![t] = "pb_submit"]
    /\ UNCHANGED <<config, env_state, call_state, queue_state, metrics_state, cur, last_result, caller_state>>

\* the settlement call returns Ok(BatchResult)
SettleOk(t) ==
    /\ pc[t] = "pb_submit"
    /\ LET result == BatchResultOf(drains[cur[t]].batch)
       IN  drains' = [drains EXCEPT ![cur[t]] =
               [@ EXCEPT !.status = "confirmed", !.result = result]]
    /\ pc' = [pc EXCEPT ![t] = "pb_metrics"]
    /\ UNCHANGED <<config, env_state, call_state, queue_state, metrics_state, cur, last_result, caller_state>>

\* the settlement call returns Err(Contract): process_batch returns it
SettleErr(t) ==
    /\ pc[t] = "pb_submit"
    /\ drains' = SetStatus(t, "failed")
    /\ pc' = [pc EXCEPT ![t] = AfterSettleErr(t)]
    /\ last_result' = [last_result EXCEPT ![t] = "Contract"]
    /\ UNCHANGED <<config, env_state, call_state, queue_state, metrics_state, cur, caller_state>>

\* update_metrics: metrics.write().await resolves
MetricsLock(t) ==
    /\ pc[t] = "pb_metrics"
    /\ metrics_lock = Free
    /\ metrics_lock' = t
    /\ pc' = [pc EXCEPT ![t] = "pb_metrics_locked"]
    /\ UNCHANGED <<config, env_state, call_state, queue_state, metrics, cur, last_result, drains,
                   caller_state>>

\* update_metrics under the lock, and process_batch's return.  Where the
\* usize subtraction of calculate_savings underflows, this is the outcome of
\* a build without overflow checks: the difference wraps.
MetricsUpdate(t) ==
    /\ pc[t] = "pb_metrics_locked"
    /\ metrics_lock = t
    /\ LET batch == drains[cur[t]].batch
           result == drains[cur[t]].result
           n == Len(batch.intents)
       IN  metrics' = UpdateAverages(
                          UpdateCounters(metrics, n, result.gas_saved), n)
    /\ metrics_lock' = Free
    /\ drains' = SetStatus(t, "folded")
    /\ pc' = [pc EXCEPT ![t] = AfterReturn(t)]
    /\ last_result' = [last_result EXCEPT ![t] = "Ok"]
    /\ UNCHANGED <<config, env_state, call_state, queue_state, cur, caller_state>>

\* update_metrics in a build with overflow checks, where the subtraction of
\* calculate_savings underflows: the counters are written, then the task
\* panics and the unwinding drops the guard.
MetricsPanic(t) ==
    /\ pc[t] = "pb_metrics_locked"
    /\ metrics_lock = t
    /\ LET batch == drains[cur[t]].batch
           result == drains[cur[t]].result
           n == Len(batch.intents)
       IN  /\ SavingsUnderflows(n)
           /\ metrics' = UpdateCounters(metrics, n, result.gas_saved)
    /\ metrics_lock' = Free
    /\ drains' = SetStatus(t, "metrics_panic")
    /\ pc' = [pc EXCEPT ![t] = AfterPanic(t)]
    /\ last_result' = [last_result EXCEPT ![t] = "panic"]
    /\ UNCHANGED <<config, env_state, call_state, queue_state, cur, caller_state>>

Next ==
    \/ \E c \in Callers : SubmitCall(c)
    \/ \E c \in Callers : SubmitLock(c)
    \/ \E c \in Callers : SubmitPush(c)
    \/ Start
    \/ Tick
    \/ \E t \in Flushers : FlushLock(t)
    \/ \E t \in Flushers : FlushTooSmall(t)
    \/ \E t \in Flushers : FlushDrain(t)
    \/ \E t \in Flushers : FlushBuildPanic(t)
    \/ \E t \in Flushers : FlushBuild(t)
    \/ \E t \in Flushers : SettleOk(t)
    \/ \E t \in Flushers : SettleErr(t)
    \/ \E t \in Flushers : MetricsLock(t)
    \/ \E t \in Flushers : MetricsUpdate(t)
    \/ \E t \in Flushers : MetricsPanic(t)

Spec == Init /\ [][Next]_vars

\* The interval fires again and again, a task that is ready to run is run,
\* the queue's RwLock is granted in the order of the requests, so that a
\* flush that asks for it gets it, and the settlement adapter returns.
Fairness ==
    /\ WF_vars(Start)
    /\ WF_vars(Tick)
    /\ \A c \in Callers : WF_vars(SubmitLock(c)) /\ WF_vars(SubmitPush(c))
    /\ \A t \in Flushers :
          /\ SF_vars(FlushLock(t))
          /\ WF_vars(FlushTooSmall(t))
          /\ WF_vars(FlushDrain(t))
          /\ WF_vars(FlushBuildPanic(t) \/ FlushBuild(t))
          /\ WF_vars(SettleOk(t) \/ SettleErr(t))
          /\ SF_vars(MetricsLock(t))
          /\ WF_vars(MetricsUpdate(t) \/ MetricsPanic(t))

SpecLive == Init /\ [][Next]_vars /\ Fairness

\* ------------------------------------------------------------- the clock

\* a second passes
ClockAdvance ==
    /\ now < MaxClock
    /\ now' = now + 1
    /\ UNCHANGED <<config, queue_state, metrics_state, flush_state, caller_state,
                   main_pc, call_state>>

NextClock == Next \/ ClockAdvance

SpecClock == Init /\ [][NextClock]_vars

\* ---------------------------------------------------------------- main()

\* tasks that run straight-line code, which ends before they can be dropped
Running ==
    {t \in Flushers : pc[t] \in {"pb_locked", "pb_build", "pb_metrics_locked"}}
        \cup {c \in Callers : sub_pc[c] = "locked"}

DroppedPc(p) == IF p \in {"unstarted", "unspawned", "dead"} THEN p ELSE "dropped"

\* ctrl_c() resolves in main(): the shutdown signal
Signal ==
    /\ main_pc = "running"
    /\ pc[Driver] # "unstarted"
    /\ main_pc' = "signalled"
    /\ UNCHANGED <<config, queue_state, metrics_state, flush_state, caller_state,
                   now, call_state>>

\* main() reads the metrics and returns: the runtime is dropped and with it
\* every task at its await point, a submission that waits for the chain
\* included
Exit ==
    /\ main_pc = "signalled"
    /\ metrics_lock = Free
    /\ Running = {}
    /\ main_pc' = "exited"
    /\ pc' = [t \in Flushers |-> DroppedPc(pc[t])]
    /\ drains' = [k \in DOMAIN drains |->
            IF drains[k].status = "submitting"
            THEN [drains[k] EXCEPT !.status = "dropped"]
            ELSE drains[k]]
    /\ sub_pc' = [c \in Callers |-> IF sub_pc[c] = "idle" THEN "idle" ELSE "dropped"]
    /\ UNCHANGED <<config, queue_state, metrics_state, cur, last_result,
                   sub_intent, sub_ret, next_id, wide_used, now, call_state>>

NextShutdown == Next \/ Signal \/ Exit

SpecShutdown == Init /\ [][NextShutdown]_vars

\* -------------------------------------------- direct calls of the functions

InitPure ==
    /\ InitRelayer
    /\ main_pc = "running"
    /\ ret = NoRet
    /\ era_state = NoEra
    /\ era_log = << >>
    /\ \/ /\ now = 0
          /\ \E n \in 0..MaxSize : arg = [kind |-> "size", n |-> n, intents |-> << >>]
       \/ /\ now \in Timestamps
          /\ \E l \in IntentLists : arg = [kind |-> "intents", n |-> Len(l), intents |-> l]
       \/ /\ now = 0
          /\ \E b \in BlobBatches : arg = [kind |-> "batch", batch |-> b]
       \/ /\ now = 0
          /\ \E i \in GrowthInitials, r \in GrowthRates, p \in 0..MaxPeriods :
                arg = [kind |-> "growth", initial |-> i, rate |-> r, periods |-> p]
       \/ /\ now = 0
          /\ \E n \in 0..MaxItems : arg = [kind |-> "items", items |-> Items(n)]
       \/ /\ now = 0
          /\ \E n \in 0..MaxSliceLen, f \in 0..3 :
                arg = [kind |-> "chunks", intents |-> [i \in 1..n |-> i], fail_at |-> f]

\* what a direct call leaves alone
call_frame ==
    <<config, queue_state, metrics_state, flush_state, caller_state, env_state,
      arg, era_state, era_log>>

CallWilliamsChunkSize ==
    /\ arg.kind = "size"
    /\ ret' = Returned("williams_chunk_size", williams_chunk_size(arg.n))
    /\ UNCHANGED call_frame

\* a build without overflow checks, or a size whose subtraction is in range
CallCalculateSavings ==
    /\ arg.kind = "size"
    /\ ret' = Returned("calculate_savings", calculate_savings(arg.n))
    /\ UNCHANGED call_frame

\* a build with overflow checks
CallCalculateSavingsPanic ==
    /\ arg.kind = "size"
    /\ SavingsUnderflows(arg.n)
    /\ ret' = Panicked("calculate_savings")
    /\ UNCHANGED call_frame

CallEstimateBatchGas ==
    /\ arg.kind = "size"
    /\ ret' = Returned("estimate_batch_gas", estimate_batch_gas(arg.n))
    /\ UNCHANGED call_frame

\* savings_percent of a Batch with the estimates of arg.n intents
CallSavingsPercent ==
    /\ arg.kind = "size"
    /\ LET g == estimate_batch_gas(arg.n)
       IN  ret' = Returned("savings_percent",
                      savings_percent([estimated_gas |-> g[1],
                                       estimated_savings |-> g[2]]))
    /\ UNCHANGED call_frame

CallBuildBatch ==
    /\ arg.kind = "intents"
    /\ arg.intents # << >>
    /\ ~BuildPanics(arg.intents)
    /\ ret' = Returned("build_batch", build_batch(arg.intents))
    /\ UNCHANGED call_frame

CallBuildBatchPanic ==
    /\ arg.kind = "intents"
    /\ BuildPanics(arg.intents)
    /\ ret' = Panicked("build_batch")
    /\ UNCHANGED call_frame

CallPhiSort ==
    /\ arg.kind = "intents"
    /\ ~PhiSortPanics(arg.intents)
    /\ ret' = Returned("phi_sort", phi_sort(arg.intents, now))
    /\ UNCHANGED call_frame

CallPhiSortPanic ==
    /\ arg.kind = "intents"
    /\ PhiSortPanics(arg.intents)
    /\ ret' = Panicked("phi_sort")
    /\ UNCHANGED call_frame

CallEncodeBatch ==
    /\ arg.kind = "batch"
    /\ ret' = Returned("encode_batch", encode_batch(arg.batch))
    /\ UNCHANGED call_frame

\* decode_batch on the blobs encode_batch returned
CallDecodeBatch ==
    /\ arg.kind = "batch"
    /\ ret.fn = "encode_batch"
    /\ ret.value.ok
    /\ ret' = Returned("decode_batch", decode_batch(ret.value.blobs))
    /\ UNCHANGED call_frame

CallCompoundGrowth ==
    /\ arg.kind = "growth"
    /\ ret' = Returned("compound_growth",
                       compound_growth(arg.initial, arg.rate, arg.periods))
    /\ UNCHANGED call_frame

\* the build traps the overflow of SCALE + rate
CallCompoundGrowthPanic ==
    /\ arg.kind = "growth"
    /\ GrowthOverflows(arg.rate, arg.periods)
    /\ ret' = Panicked("compound_growth")
    /\ UNCHANGED call_frame

CallTreeCombine ==
    /\ arg.kind = "items"
    /\ ~TreeCombinePanics(arg.items)
    /\ ret' = Returned("tree_combine", tree_combine(arg.items))
    /\ UNCHANGED call_frame

CallTreeCombinePanic ==
    /\ arg.kind = "items"
    /\ TreeCombinePanics(arg.items)
    /\ ret' = Panicked("tree_combine")
    /\ UNCHANGED call_frame

CallProcessInChunks ==
    /\ arg.kind = "chunks"
    /\ ~ChunksPanic(Len(arg.intents))
    /\ ret' = Returned("process_in_chunks", process_in_chunks(arg.intents, arg.fail_at))
    /\ UNCHANGED call_frame

CallProcessInChunksPanic ==
    /\ arg.kind = "chunks"
    /\ ChunksPanic(Len(arg.intents))
    /\ ret' = Panicked("process_in_chunks")
    /\ UNCHANGED call_frame

NextPure ==
    \/ CallWilliamsChunkSize
    \/ CallCalculateSavings
    \/ CallCalculateSavingsPanic
    \/ CallEstimateBatchGas
    \/ CallSavingsPercent
    \/ CallBuildBatch
    \/ CallBuildBatchPanic
    \/ CallPhiSort
    \/ CallPhiSortPanic
    \/ CallEncodeBatch
    \/ CallDecodeBatch
    \/ CallCompoundGrowth
    \/ CallCompoundGrowthPanic
    \/ CallTreeCombine
    \/ CallTreeCombinePanic
    \/ CallProcessInChunks
    \/ CallProcessInChunksPanic

SpecPure == InitPure /\ [][NextPure]_vars

\* ------------------------------------------------- calls on an EraState

InitEra ==
    /\ InitRelayer
    /\ main_pc = "running"
    /\ now \in Timestamps
    /\ arg = NoArg
    /\ ret = NoRet
    /\ \E d \in EraDurations : era_state = EraState_new(SCALE, <<0, 0, 0, 0, 0, 100>>, d)
    /\ era_log = << >>

era_frame ==
    <<config, queue_state, metrics_state, flush_state, caller_state, env_state, arg>>

\* a call can be made: the thread has not panicked
EraCallable == ~ret.panicked /\ Len(era_log) < MaxEraCalls

RecordOperations(count) ==
    /\ EraCallable
    /\ era_state' = record_operations(era_state, count)
    /\ era_log' = Append(era_log, [op |-> "record_operations", count |-> count])
    /\ ret' = Returned("record_operations", 0)
    /\ UNCHANGED era_frame

\* the build traps the overflow
RecordOperationsPanic(count) ==
    /\ EraCallable
    /\ \/ Overflows64(era_state.era_operations, count)
       \/ Overflows64(era_state.total_operations, count)
    /\ era_state' = record_operations_trapped(era_state, count)
    /\ era_log' = Append(era_log, [op |-> "record_operations", count |-> count])
    /\ ret' = Panicked("record_operations")
    /\ UNCHANGED era_frame

AdvanceEra ==
    /\ EraCallable
    /\ era_state' = advance_era(era_state)
    /\ era_log' = Append(era_log, [op |-> "advance_era", count |-> << >>])
    /\ ret' = Returned("advance_era", 0)
    /\ UNCHANGED era_frame

\* the build traps the overflow
AdvanceEraPanic ==
    /\ EraCallable
    /\ \/ Overflows64(era_state.era, Big(1))
       \/ Overflows64(era_state.era_start, era_state.era_duration)
    /\ era_state' = advance_era_trapped(era_state)
    /\ era_log' = Append(era_log, [op |-> "advance_era", count |-> << >>])
    /\ ret' = Panicked("advance_era")
    /\ UNCHANGED era_frame

NextEra ==
    \/ \E count \in EraCounts : RecordOperations(count)
    \/ \E count \in EraCounts : RecordOperationsPanic(count)
    \/ AdvanceEra
    \/ AdvanceEraPanic

SpecEra == InitEra /\ [][NextEra]_vars

\* ================================================================ claims

BuiltStatus == {"submitting", "confirmed", "failed", "folded", "metrics_panic"}
SucceededStatus == {"confirmed", "folded", "metrics_panic"}
FoldedStatus == {"folded", "metrics_panic"}
InFlight == {t \in Flushers : pc[t] \in {"pb_build", "pb_submit"}}

\* the step in which flusher t leaves the size test of process_batch
LeavesSizeTest(t) == pc[t] = "pb_locked" /\ pc'[t] # "pb_locked"
\* the step in which caller c's submit_intent is called
IsCall(c) == sub_pc[c] = "idle" /\ sub_intent'[c] # sub_intent[c]
\* the step in which caller c's submit_intent pushes and returns
IsPush(c) == sub_pc[c] = "locked" /\ sub_pc'[c] = "idle"
\* a step in which a process_batch task is spawned
Spawns == \E s \in Spawned : pc[s] = "unspawned" /\ pc'[s] = "pb_lock"

RECURSIVE IntentsIn(_)
IntentsIn(K) ==
    IF K = {} THEN 0
    ELSE LET k == CHOOSE x \in K : TRUE
         IN  Len(drains[k].intents) + IntentsIn(K \ {k})

\* C1: every intent of a batch the settlement adapter accepted occurs exactly
\* once in that batch and in no other batch that was built.
C1_ExactlyOnce ==
    \A k \in DOMAIN drains :
        drains[k].status \in SucceededStatus =>
            \A i \in DOMAIN drains[k].intents :
                \A k2 \in DOMAIN drains :
                    drains[k2].status \in BuiltStatus =>
                        \A j \in DOMAIN drains[k2].intents :
                            drains[k2].intents[j].id = drains[k].intents[i].id
                                => (k2 = k /\ j = i)

\* C1 witness: a batch of two or more intents succeeded and another batch was built
C1_Witness ==
    \E k, k2 \in DOMAIN drains :
        /\ k # k2
        /\ drains[k].status \in SucceededStatus
        /\ Len(drains[k].intents) >= 2
        /\ drains[k2].status \in BuiltStatus

\* C2: at most one process_batch invocation is between its drain and the end
\* of its settlement submission.
C2_SingleFlight == Cardinality(InFlight) <= 1

C4_DrainBuildsOneBatch ==
    [][\A t \in Flushers :
        /\ (LeavesSizeTest(t) /\ Len(intent_queue) >= min_batch_size) =>
              /\ intent_queue' = << >>
              /\ Len(drains') = Len(drains) + 1
              /\ drains'[cur'[t]].intents = intent_queue
        /\ (pc[t] = "pb_build" /\ pc'[t] # "pb_build") =>
              /\ pc'[t] = "pb_submit"
              /\ drains'[cur[t]].status = "submitting"
              /\ drains'[cur[t]].intents = drains[cur[t]].intents]_vars

\* C5: a call with an empty signature returns InvalidSignature and leaves the
\* queue, its lock, the metrics, the flushers and the drains as they were; a
\* call with a signature goes on to the queue, and its push returns the
\* intent's id.
C5_SubmitSignature ==
    [][\A c \in Callers :
        /\ IsCall(c) =>
              IF sub_intent'[c].signature = << >>
              THEN /\ sub_ret'[c] = ErrOf("InvalidSignature")
                   /\ sub_pc'[c] = "idle"
                   /\ UNCHANGED <<queue_state, metrics_state, flush_state>>
              ELSE sub_pc'[c] = "lock"
        /\ IsPush(c) =>
              /\ sub_ret'[c] = OkId(sub_intent[c].id)
              /\ sub_intent[c].signature # << >>]_vars

\* C5 witness: a call was rejected while intents were queued and a flush ran
C5_Witness ==
    \E c \in Callers :
        /\ sub_ret[c] = ErrOf("InvalidSignature")
        /\ sub_pc[c] = "idle"
        /\ intent_queue # << >>
        /\ InFlight # {}

\* C6: ids being handed out in call order, the drains in the order they
\* happened followed by the queue hold the queued intents in call order: the
\* queue is in call order, every drain is, and an intent of an earlier call is
\* never in a later drain than an intent of a later call, nor still queued
\* when that one has been drained.
C6_IntakeOrder ==
    /\ \A i, j \in DOMAIN intent_queue :
          i < j => intent_queue[i].id < intent_queue[j].id
    /\ \A k \in DOMAIN drains : \A i, j \in DOMAIN drains[k].intents :
          i < j => drains[k].intents[i].id < drains[k].intents[j].id
    /\ \A k, k2 \in DOMAIN drains :
          k < k2 => \A i \in DOMAIN drains[k].intents, j \in DOMAIN drains[k2].intents :
                        drains[k].intents[i].id < drains[k2].intents[j].id
    /\ \A k \in DOMAIN drains : \A i \in DOMAIN drains[k].intents, j \in DOMAIN intent_queue :
          drains[k].intents[i].id < intent_queue[j].id
    /\ IntentsIn(DOMAIN drains) + Len(intent_queue) + Cardinality(InCall) = next_id

\* C6 witness: two drains happened, one of them of two or more intents, and
\* two or more intents are queued
C6_Witness ==
    /\ Len(drains) >= 2
    /\ \E k \in DOMAIN drains : Len(drains[k].intents) >= 2
    /\ Len(intent_queue) >= 2

\* C7: a push spawns a flush exactly when it takes the queue length from below
\* max_batch_size to max_batch_size.
C7_EdgeTriggered ==
    [][\A c \in Callers :
        IsPush(c) =>
            (Spawns <=> (Len(intent_queue) < max_batch_size
                         /\ Len(intent_queue') >= max_batch_size))]_vars

\* C8: a flusher that has drained holds no lock on the queue while it builds,
\* submits or updates the metrics; no task holds both locks; and whenever a
\* caller waits for the queue lock, either it can take the lock or the holder
\* can take the step that releases it.
C8_NoDeadlock ==
    /\ \A t \in Flushers :
          pc[t] \in {"pb_build", "pb_submit", "pb_metrics", "pb_metrics_locked"}
              => queue_lock # t
    /\ \A t \in Flushers : metrics_lock = t => queue_lock # t
    /\ \A c \in Callers :
          sub_pc[c] = "lock" =>
              \/ ENABLED SubmitLock(c)
              \/ \E t \in Flushers :
                    queue_lock = t /\ ENABLED (FlushTooSmall(t) \/ FlushDrain(t))
              \/ \E h \in Callers : queue_lock = h /\ ENABLED SubmitPush(h)
    /\ \A c \in Callers : sub_pc[c] = "locked" => ENABLED SubmitPush(c)

\* C8 witness: a caller holds the queue lock while a batch is with the
\* settlement adapter and another flusher waits for the lock
C8_Witness ==
    /\ \E t \in Flushers : pc[t] = "pb_submit"
    /\ \E t \in Flushers : pc[t] = "pb_lock"
    /\ \E c \in Callers : sub_pc[c] = "locked" /\ queue_lock = c

\* C9: once no flush is between its BatchResult and its metrics update, the
\* counters are the number, the intent count and the gas_saved of the batches
\* that got a BatchResult; and whenever the metrics can be read, they are the
\* result of whole updates: the counters and the mean of the same batches.
C9_MetricsLinearizable ==
    LET produced == {k \in DOMAIN drains : drains[k].status \in SucceededStatus}
        folded == {k \in DOMAIN drains : drains[k].status \in FoldedStatus}
        m == get_metrics
    IN  /\ (\A t \in Flushers : pc[t] \notin {"pb_metrics", "pb_metrics_locked"}) =>
              /\ m.total_batches = Cardinality(produced)
              /\ m.total_intents = IntentsIn(produced)
              /\ m.total_gas_saved = estimate_batch_gas(IntentsIn(produced))[2]
        /\ metrics_lock = Free =>
              /\ m.total_batches = Cardinality(folded)
              /\ m.total_intents = IntentsIn(folded)
              /\ m.avg_batch_size =
                    IF folded = {} THEN Rat(0)
                    ELSE Norm(IntentsIn(folded), Cardinality(folded))

\* C10: avg_batch_size is 0 before the first batch and afterwards the mean of
\* the folded batch sizes: avg_batch_size * total_batches = total_intents.
C10_RunningMean ==
    LET m == get_metrics
    IN  IF m.total_batches = 0
        THEN m.avg_batch_size = Rat(0)
        ELSE RatMul(m.avg_batch_size, Rat(m.total_batches)) = Rat(m.total_intents)

\* C11: a settlement error ends the flush: process_batch returns the error in
\* the step that receives it, with the queue and the metrics untouched; from
\* then on the failed batch never changes (it is not submitted again and gets
\* no BatchResult), none of its intents is in the queue or in another drain,
\* and the metrics count only batches that were folded.
C11_NoRetry ==
    [][/\ \A t \in Flushers :
              (pc[t] = "pb_submit" /\ drains'[cur[t]].status = "failed") =>
                  /\ pc'[t] = AfterReturn(t)
                  /\ last_result'[t] = "Contract"
                  /\ intent_queue' = intent_queue
                  /\ metrics' = metrics
                  /\ drains'[cur[t]].result = NoResult
       /\ \A k \in DOMAIN drains :
              drains[k].status = "failed" =>
                  /\ drains'[k] = drains[k]
                  /\ \A i \in DOMAIN drains[k].intents :
                        /\ \A j \in DOMAIN intent_queue' :
                              intent_queue'[j].id # drains[k].intents[i].id
                        /\ \A k2 \in DOMAIN drains' \ {k} :
                              \A j \in DOMAIN drains'[k2].intents :
                                  drains'[k2].intents[j].id # drains[k].intents[i].id
       /\ metrics'.total_batches =
              Cardinality({k \in DOMAIN drains' : drains'[k].status \in FoldedStatus})
      ]_vars

\* C11 witness: a batch failed at settlement, its flusher is back, a later
\* drain was confirmed and folded, and intents are queued again
C11_Witness ==
    \E k, k2 \in DOMAIN drains :
        /\ k < k2
        /\ drains[k].status = "failed"
        /\ Len(drains[k].intents) >= 2
        /\ drains[k2].status = "folded"
        /\ intent_queue # << >>
        /\ \A t \in Flushers : cur[t] = k => pc[t] # "pb_submit"

\* C12: whenever a flush of the driver ends in a failure of build_batch or of
\* the settlement, the driver is back at its interval, ready for the next tick.
C12_DriverContinues ==
    [][(/\ pc[Driver] \in {"pb_build", "pb_submit"}
        /\ drains'[cur[Driver]].status \in {"build_panic", "failed"})
           => pc'[Driver] = "tick"]_vars

\* C13: once the shutdown signal is raised no flush drains the queue any more,
\* and a submission that is with the settlement adapter always ends with the
\* adapter's answer, a BatchResult or an error.
C13_GracefulShutdown ==
    [][/\ main_pc # "running" => Len(drains') = Len(drains)
       /\ \A t \in Flushers :
              (pc[t] = "pb_submit" /\ pc'[t] # "pb_submit") =>
                  drains'[cur[t]].status \in {"confirmed", "failed"}]_vars

\* C14: the Batch a flush builds has an id strictly greater than the id of
\* every Batch built before it.
C14_BatchIdsMonotonic ==
    [][\A t \in Flushers :
          (pc[t] = "pb_build" /\ pc'[t] = "pb_submit") =>
              \A k \in DOMAIN drains :
                  drains[k].status \in BuiltStatus =>
                      drains[k].batch.id < drains'[cur[t]].batch.id]_vars

\* C15: in a Batch that build_batch returns, of two intents with the same
\* timestamp (hence the same age) and the same amount, one with priority and
\* one without, the one with priority comes first.
C15_PriorityFirst ==
    (ret.fn = "build_batch" /\ ~ret.panicked) =>
        \A i, j \in DOMAIN ret.value.intents :
            LET a == ret.value.intents[i]
                b == ret.value.intents[j]
            IN  (/\ i < j
                 /\ a.timestamp = b.timestamp
                 /\ a.amount = b.amount) => ~(~a.priority /\ b.priority)

\* C16: in the list phi_sort returns, of two intents with the same score the
\* one with the lower timestamp comes first, and with equal timestamps the
\* one with the smaller id.
C16_TieBreak ==
    (ret.fn = "phi_sort" /\ ~ret.panicked) =>
        \A i, j \in DOMAIN ret.value :
            LET a == ret.value[i]
                b == ret.value[j]
            IN  (i < j /\ calculate_phi_score(a, now) = calculate_phi_score(b, now))
                    => \/ a.timestamp < b.timestamp
                       \/ a.timestamp = b.timestamp /\ a.id <= b.id

\* C17: williams_chunk_size(n) is at most n for every batch size n.
C17_ChunkAtMostN ==
    ret.fn = "williams_chunk_size" => ret.value <= arg.n

\* C18: for 100 <= n <= MaxSize, williams_chunk_size(n) is below n and
\* calculate_savings(n) returns (n - williams_chunk_size(n)) / n * 100 without
\* underflow, a value of at least 25; for n = 10000 the chunk size is in
\* [1300, 1500] and the savings in [80, 90].
C18_SavingsAtLeast25 ==
    (arg.kind = "size" /\ arg.n >= 100) =>
        /\ ret.fn = "williams_chunk_size" =>
              /\ ret.value < arg.n
              /\ arg.n = 10000 => (1300 <= ret.value /\ ret.value <= 1500)
        /\ ret.fn = "calculate_savings" =>
              /\ ~ret.panicked
              /\ ret.value.w = Rat(0)
              /\ ret.value.q = Norm((arg.n - williams_chunk_size(arg.n)) * 100, arg.n)
              /\ ret.value.q[1] >= 25 * ret.value.q[2]
              /\ arg.n = 10000 => /\ 80 * ret.value.q[2] <= ret.value.q[1]
                                  /\ ret.value.q[1] <= 90 * ret.value.q[2]

\* C18 witness: calculate_savings(10000) returned 86
C18_Witness ==
    /\ arg.kind = "size"
    /\ arg.n = 10000
    /\ ret = Returned("calculate_savings", [q |-> Rat(86), w |-> Rat(0)])

\* C19: for n >= 1 intents, estimate_batch_gas returns n * 14000 gas and
\* n * 86000 savings, which are 86000 / 100000 of their sum, and
\* savings_percent of a Batch with these estimates is 86.
C19_GasEstimates ==
    (arg.kind = "size" /\ arg.n >= 1) =>
        /\ ret.fn = "estimate_batch_gas" =>
              /\ ret.value[1] = arg.n * 14000
              /\ ret.value[2] = arg.n * 86000
              /\ Norm(ret.value[2], ret.value[1] + ret.value[2]) = Norm(86000, 100000)
        /\ ret.fn = "savings_percent" => ret.value = Rat(86)

\* C19 witness: savings_percent returned 86 for a batch of 1000 intents
C19_Witness ==
    /\ arg.kind = "size"
    /\ arg.n = 1000
    /\ ret = Returned("savings_percent", Rat(86))

\* C20: every drain whose batch got a BatchResult holds a result with one
\* success flag per intent of the batch and with the batch's id as batch_id;
\* a drain whose batch got none holds no result.
C20_ResultMatchesBatch ==
    \A k \in DOMAIN drains :
        IF drains[k].status \in SucceededStatus
        THEN /\ drains[k].batch.intents = drains[k].intents
             /\ Len(drains[k].result.successes) = Len(drains[k].batch.intents)
             /\ drains[k].result.batch_id = drains[k].batch.id
             /\ drains[k].result.gas_saved = drains[k].batch.estimated_savings
        ELSE drains[k].result = NoResult

\* C20 witness: a batch of three intents got its BatchResult
C20_Witness ==
    \E k \in DOMAIN drains :
        /\ drains[k].status = "confirmed"
        /\ Len(drains[k].batch.intents) = 3
        /\ drains[k].result.successes = <<TRUE, TRUE, TRUE>>

\* C21: decode_batch on the blobs encode_batch returned for a batch succeeds
\* and gives a batch with the same id and the same intents, ids included, in
\* the same order, for one blob and for several, the last one padded or full.
C21_BlobRoundTrip ==
    (arg.kind = "batch" /\ ret.fn = "decode_batch") =>
        /\ ret.value.ok
        /\ ret.value.batch.id = arg.batch.id
        /\ Len(ret.value.batch.intents) = Len(arg.batch.intents)
        /\ \A i \in DOMAIN arg.batch.intents :
              ret.value.batch.intents[i].id = arg.batch.intents[i].id

\* C21 witness: a batch of two intents that fills three blobs, the last one
\* padded, came back from decode_batch
C21_Witness ==
    /\ arg.kind = "batch"
    /\ arg.batch.len = 2 * BLOB_SIZE + 1
    /\ Len(arg.batch.intents) = 2
    /\ ret.fn = "decode_batch"
    /\ ret.value.ok

\* C22: for a serialization of L bytes that needs more than six blobs of
\* 131072 bytes encode_batch returns BatchTooLarge and no blob; otherwise it
\* returns ceil(L / 131072) blobs, each with 131072 bytes of data and a
\* commitment of 48 bytes, blob i holding the bytes from (i - 1) * 131072 up
\* to i * 131072 or L, followed by zeros only.
C22_BlobSegments ==
    (arg.kind = "batch" /\ ret.fn = "encode_batch") =>
        LET L == arg.batch.len
            n == CHOOSE k \in 0..(MaxBlobCount + 2) :
                     k * 131072 >= L /\ (k - 1) * 131072 < L
            r == ret.value
        IN  IF n > 6
            THEN ~r.ok /\ r.err = "BatchTooLarge" /\ r.blobs = << >>
            ELSE /\ r.ok
                 /\ Len(r.blobs) = n
                 /\ \A i \in 1..n :
                       LET d == r.blobs[i].blob_data
                           last == IF i * 131072 < L THEN i * 131072 ELSE L
                       IN  /\ RunsLen(d) = 131072
                           /\ r.blobs[i].commitment_len = 48
                           /\ d[1] = DataRun(arg.batch, (i - 1) * 131072, last)
                           /\ \A j \in 2..Len(d) : d[j].kind = "zero"

\* C22 witness: a serialization of exactly six blobs was encoded
C22_Witness ==
    /\ arg.kind = "batch"
    /\ arg.batch.len = 6 * BLOB_SIZE
    /\ ret.fn = "encode_batch"
    /\ ret.value.ok
    /\ Len(ret.value.blobs) = 6

\* the product chain of the claim over the integers, capped at u128::MAX
RECURSIVE C23_Saturating(_, _, _)
C23_Saturating(initial, rate, periods) ==
    IF periods = 0 THEN initial
    ELSE LET x == DivScale(BigMul(C23_Saturating(initial, rate, periods - 1),
                                  BigAdd(SCALE, rate)))
         IN  IF BigLess(U128Max, x) THEN U128Max ELSE x

\* C23: compound_growth(initial, rate, periods) returns for every input,
\* returns initial for periods = 0, returns the value of the saturating
\* product chain result * (SCALE + rate) / SCALE, never a wrapped one, and
\* returns no less than it does for any smaller number of periods.
C23_CompoundGrowth ==
    (arg.kind = "growth" /\ ret.fn = "compound_growth") =>
        /\ ~ret.panicked
        /\ arg.periods = 0 => ret.value = arg.initial
        /\ ret.value = C23_Saturating(arg.initial, arg.rate, arg.periods)
        /\ \A q \in 0..arg.periods :
              BigLeq(compound_growth(arg.initial, arg.rate, q), ret.value)

\* C23, the part that holds: without an overflow the result is the product
\* chain, and initial for periods = 0
C23_GrowthInRange ==
    (/\ arg.kind = "growth"
     /\ ret.fn = "compound_growth"
     /\ ~ret.panicked
     /\ BigLeq(BigMul(C23_Saturating(arg.initial, arg.rate, arg.periods),
                      BigAdd(SCALE, arg.rate)), U128Max)) =>
        /\ ret.value = C23_Saturating(arg.initial, arg.rate, arg.periods)
        /\ arg.periods = 0 => ret.value = arg.initial

\* C24: a flush that ends without calling the settlement adapter leaves the
\* queue as it found it: after the size test fails the queue is unchanged,
\* and the intents of a flush that ends after its drain without a call of the
\* adapter are in the queue, so that every accepted intent is in the queue or
\* in a batch that was handed to the adapter.
C24_NoSilentDrop ==
    [][\A t \in Flushers :
          /\ (pc[t] = "pb_locked" /\ pc'[t] \notin {"pb_locked", "pb_build"})
                 => intent_queue' = intent_queue
          /\ (pc[t] = "pb_build" /\ pc'[t] \notin {"pb_build", "pb_submit"})
                 => \A i \in DOMAIN drains[cur[t]].intents :
                        \E j \in DOMAIN intent_queue' :
                            intent_queue'[j] = drains[cur[t]].intents[i]]_vars

\* C25: the queue never holds more than max_batch_size intents and no drain,
\* hence no batch, has more than max_batch_size intents.
C25_BoundedBatch ==
    /\ Len(intent_queue) <= max_batch_size
    /\ \A k \in DOMAIN drains : Len(drains[k].intents) <= max_batch_size

\* C26: whenever the queue holds at least min_batch_size intents, each of
\* them is eventually in a batch that was handed to the settlement adapter.
C26_EventuallyDrained ==
    \A i \in 1..MaxIntents :
        (/\ Len(intent_queue) >= min_batch_size
         /\ \E j \in DOMAIN intent_queue : intent_queue[j].id = i)
            ~> (\E k \in DOMAIN drains :
                    /\ drains[k].status \in BuiltStatus
                    /\ \E j \in DOMAIN drains[k].intents : drains[k].intents[j].id = i)

C27_InRange(r) == r[1] >= 0 /\ r[1] <= 100 * r[2]

\* C27: update_metrics completes for every batch a flush produced, and the
\* savings means are percentages in [0, 100].
C27_SavingsInRange ==
    /\ \A k \in DOMAIN drains : drains[k].status # "metrics_panic"
    /\ metrics.avg_williams_savings.w = Rat(0)
    /\ C27_InRange(metrics.avg_williams_savings.q)
    /\ C27_InRange(metrics.avg_phi_savings)
    /\ C27_InRange(metrics.avg_savings_percent)

\* C28: tree_combine returns None for the empty list, and for every
\* non-empty list it returns Some value that is built from every item,
\* each used exactly once.
C28_TreeCombine ==
    (arg.kind = "items" /\ ret.fn = "tree_combine") =>
        /\ ~ret.panicked
        /\ IF arg.items = << >>
           THEN ~ret.value.some
           ELSE /\ ret.value.some
                /\ Len(ret.value.item) = Len(arg.items)
                /\ \A i \in DOMAIN arg.items :
                      \E j \in DOMAIN ret.value.item : ret.value.item[j] = i

RECURSIVE C29_Concat(_)
C29_Concat(chunks) ==
    IF chunks = << >> THEN << >> ELSE Head(chunks) \o C29_Concat(Tail(chunks))

\* C29: for every slice, the empty one included, process_in_chunks returns;
\* process_fn is called on non-empty chunks of at most williams_chunk_size(n)
\* items that follow one another in the slice; if no call fails, the chunks
\* make up the slice and there is one result per chunk, in order; if a call
\* fails, it is the last call and its error is returned.
C29_ProcessInChunks ==
    (arg.kind = "chunks" /\ ret.fn = "process_in_chunks") =>
        /\ ~ret.panicked
        /\ LET r == ret.value
               all == C29_Concat(r.calls)
           IN  /\ \A k \in DOMAIN r.calls :
                     /\ r.calls[k] # << >>
                     /\ Len(r.calls[k]) <= williams_chunk_size(Len(arg.intents))
               /\ all = SubSeq(arg.intents, 1, Len(all))
               /\ IF r.ok
                  THEN all = arg.intents /\ r.results = r.calls
                  ELSE Len(r.calls) = arg.fail_at /\ r.err = arg.fail_at

\* the sum of the counts record_operations was called with
RECURSIVE C30_Recorded(_)
C30_Recorded(log) ==
    IF log = << >> THEN << >>
    ELSE BigAdd(C30_Recorded(SubSeq(log, 1, Len(log) - 1)), log[Len(log)].count)

\* C30: after every call of record_operations or advance_era,
\* era_operations is at most total_operations and total_operations is the
\* sum of the recorded counts; record_operations(c) returns, adds c to
\* era_operations and to total_operations and changes nothing else;
\* advance_era returns, adds 1 to era, sets era_operations to 0, adds
\* era_duration to era_start and changes nothing else.
C30_EraCounters ==
    [][Len(era_log') = Len(era_log) + 1 =>
        LET call == era_log'[Len(era_log')]
        IN  /\ ~ret'.panicked
            /\ BigLeq(era_state'.era_operations, era_state'.total_operations)
            /\ era_state'.total_operations = C30_Recorded(era_log')
            /\ IF call.op = "record_operations"
               THEN era_state' =
                        [era_state EXCEPT
                            !.era_operations = BigAdd(@, call.count),
                            !.total_operations = BigAdd(@, call.count)]
               ELSE era_state' =
                        [era_state EXCEPT
                            !.era = BigAdd(@, <<1>>),
                            !.era_start = BigAdd(@, era_state.era_duration),
                            !.era_operations = << >>]]_vars

====
